---- MODULE Spec2Model ----
(***************************************************************************)
(* State-machine model of gabos_mcp.extractors.chm.ChmExtractor: the lazy  *)
(* extraction pipeline (_extract, _convert, _build_index), the readiness   *)
(* set kept by _ensure_ready, and the query operations search, read_page,  *)
(* list_pages, list_apps and list_sources that sit on top of it.           *)
(*                                                                         *)
(* Names are sequences of one-character strings, so that the cache key     *)
(* f"{app}/{source}" and the cache path cache_dir / app / source are       *)
(* computed from the names the way the code computes them.  A path is a    *)
(* sequence of components, as pathlib's Path.parts.                        *)
(***************************************************************************)
EXTENDS Integers, Sequences, FiniteSets, TLC

\* ------------------------------------------------------------------ bounds

\* Number of document stems held by every archive.
NumDocs == 2

\* The work counters saturate here (they are history, not program state).
WorkCap == 2

\* search's limit and list_pages' limit and offset are drawn from 1..MaxLimit
\* and 0..MaxLimit.
MaxLimit == 2

\* Documents handed to one SearchIndex.build.
MaxBuild == 2

\* ------------------------------------------------------------------- names

NoName == <<>>
AppA == <<"a">>
AppAB == <<"a", "/", "b">>
AppX == <<"x">>
SrcM == <<"m">>
SrcN == <<"n">>
SrcC == <<"c">>
SrcBC == <<"b", "/", "c">>

\* The names callers pass in; AppX is configured in no configuration.
AppNames == {AppA, AppAB, AppX}
SourceNames == {SrcM, SrcN, SrcC, SrcBC}

\* The configurations __init__ may be given: a sequence of (app, source)
\* entries in the order dict iteration yields them.
Configs ==
    { <<>>,
      << <<AppA, SrcM>> >>,
      << <<AppA, SrcM>>, <<AppA, SrcN>> >>,
      << <<AppA, SrcM>>, <<AppAB, SrcC>> >> }

Stages == {"extract", "convert", "index"}

Callers == {"t1", "t2"}

\* ------------------------------------------------------------------- paths

Root == <<"/">>
DotDot == <<".", ".">>

\* str.split("/") without the empty segments, as Path joins its arguments.
RECURSIVE SplitFrom(_, _, _)
SplitFrom(name, i, cur) ==
    IF i > Len(name)
    THEN IF cur = <<>> THEN <<>> ELSE <<cur>>
    ELSE IF name[i] = "/"
         THEN (IF cur = <<>> THEN <<>> ELSE <<cur>>) \o SplitFrom(name, i + 1, <<>>)
         ELSE SplitFrom(name, i + 1, Append(cur, name[i]))

Split(name) == SplitFrom(name, 1, <<>>)

\* Path.__truediv__: an absolute right operand replaces the left one.
Join(p, q) == IF q # <<>> /\ q[1] = Root THEN q ELSE p \o q

\* self._cache_dir
CacheDir == <<Root, <<"c">>>>

_cache_key(app, source) == app \o <<"/">> \o source

_cache_path(app, source) == Join(Join(CacheDir, Split(app)), Split(source))

HtmlDirName == <<"h", "t", "m", "l">>
MarkdownDirName == <<"m", "a", "r", "k", "d", "o", "w", "n">>
IndexDirName == <<"i", "n", "d", "e", "x">>

\* The cache directories of a configuration's pairs.
CachePathsOf(config) ==
    {_cache_path(config[i][1], config[i][2]) : i \in DOMAIN config}

\* ------------------------------------------------------------- the archive

Docs == 1..NumDocs

\* The markup documents of an archive: stem 1 is an .htm file, the others
\* are .html files.
Archive == {<<d, IF d = 1 THEN "htm" ELSE "html">> : d \in Docs}

\* What a failed run of the external tool may have written before it
\* failed: nothing, or the first document.
PartialOutputs == {{}, {<<1, "htm">>}}

\* html_file.relative_to(html_dir).with_suffix(".md"): the stem is kept.
MdOf(f) == f[1]

\* The file name of converted document d, as a path component.
MdFile(d) == <<"d", ToString(d), ".", "m", "d">>

\* sorted(...) of a set of document stems, as a sequence.
RECURSIVE SortedSeq(_)
SortedSeq(S) ==
    IF S = {} THEN <<>>
    ELSE LET m == CHOOSE x \in S : \A y \in S : x <= y
         IN  <<m>> \o SortedSeq(S \ {m})

\* The order in which _convert's loop takes the enumerated files: the
\* "*.htm" matches first, then the "*.html" matches.
FileRank(f) == (IF f[2] = "htm" THEN 0 ELSE NumDocs + 1) + f[1]

NextFile(S) == CHOOSE f \in S : \A g \in S : FileRank(f) <= FileRank(g)

\* ------------------------------------------------------------------- state

VARIABLES
    apps,        \* self._apps, as the sequence of configured (app, source)
    broken,      \* the archive's documents whose conversion raises
    ready,       \* self._ready: set of cache keys
    extracted,   \* cache path -> html/.extracted exists
    html,        \* cache path -> files under html/
    converted,   \* cache path -> markdown/.converted exists
    markdown,    \* cache path -> stems of the .md files under markdown/
    index,       \* cache path -> the index under index/: [exists, docs]
    indexed,     \* cache path -> index/.indexed exists
    writelock,   \* cache path -> holder of the index's write lock
    pc,          \* caller -> position in the operation it is running
    call,        \* caller -> the running operation and its arguments
    todo,        \* caller -> files left in the loop of the running stage
    buf,         \* caller -> documents added to its open index writer
    hits,        \* caller -> search's results list
    res,         \* caller -> what the finished operation hands its caller
    trace,       \* caller -> history of its latest _ensure_ready call
    work,        \* cache path -> stage -> times the stage's work was started
                 \*   while no stage had raised and no marker was deleted
    tampered,    \* cache path -> a marker was deleted from outside
    failed,      \* cache path -> some stage raised
    lastFail,    \* cache path -> stage the latest _ensure_ready raised in
    removed,     \* cache path -> converted documents deleted from outside
    siMarker,    \* SearchIndex: index_dir/.indexed exists
    siDb,        \* SearchIndex: index.db, [exists, rows of the docs table]
    siOut,       \* SearchIndex: the latest call and what it returned
    writing      \* caller -> stem of the .md file it has open for writing,
                 \*   0 when it has none

fsVars == <<extracted, html, converted, markdown, index, indexed, writelock>>
callVars == <<pc, call, todo, buf, hits, res, trace>>
histVars == <<work, tampered, failed, lastFail, removed>>
siVars == <<siMarker, siDb, siOut>>
vars == <<apps, broken, ready, fsVars, callVars, histVars, siVars, writing>>

NoCall ==
    [op |-> "none", app |-> NoName, source |-> NoName, rest |-> <<>>,
     query |-> "none", limit |-> 0, offset |-> 0, path |-> <<>>,
     scope |-> <<NoName, NoName>>]

NoRes == [status |-> "none", out |-> <<>>, avail |-> {}]

NoTrace ==
    [early |-> FALSE, validated |-> FALSE, checked |-> {}, ran |-> {},
     enum |-> {}, gone |-> {}, prevFail |-> "none", added |-> FALSE,
     torn |-> {}]

NoIndex == [exists |-> FALSE, docs |-> {}]

NoWork == [s \in Stages |-> 0]
NoDb == [exists |-> FALSE, rows |-> <<>>]
NoOut ==
    [op |-> "none", query |-> "none", limit |-> 0, given |-> 0,
     status |-> "none", out |-> <<>>]

\* ChmExtractor.__init__ over an empty cache directory.
InitWith(configs) ==
    /\ apps \in configs
    /\ broken \in SUBSET Archive
    /\ ready = {}
    /\ extracted = [p \in CachePathsOf(apps) |-> FALSE]
    /\ html = [p \in CachePathsOf(apps) |-> {}]
    /\ converted = [p \in CachePathsOf(apps) |-> FALSE]
    /\ markdown = [p \in CachePathsOf(apps) |-> {}]
    /\ index = [p \in CachePathsOf(apps) |-> NoIndex]
    /\ indexed = [p \in CachePathsOf(apps) |-> FALSE]
    /\ writelock = [p \in CachePathsOf(apps) |-> "free"]
    /\ pc = [t \in Callers |-> "idle"]
    /\ call = [t \in Callers |-> NoCall]
    /\ todo = [t \in Callers |-> {}]
    /\ buf = [t \in Callers |-> {}]
    /\ hits = [t \in Callers |-> <<>>]
    /\ res = [t \in Callers |-> NoRes]
    /\ trace = [t \in Callers |-> NoTrace]
    /\ work = [p \in CachePathsOf(apps) |-> NoWork]
    /\ tampered = [p \in CachePathsOf(apps) |-> FALSE]
    /\ failed = [p \in CachePathsOf(apps) |-> FALSE]
    /\ lastFail = [p \in CachePathsOf(apps) |-> "none"]
    /\ removed = [p \in CachePathsOf(apps) |-> {}]
    /\ siMarker = FALSE
    /\ siDb = NoDb
    /\ siOut = NoOut
    /\ writing = [t \in Callers |-> 0]

Config1 == << <<AppA, SrcM>> >>

Init == InitWith({Config1})

\* --------------------------------------------------------- source registry

ConfiguredApps == {apps[i][1] : i \in DOMAIN apps}

SourcesOf(app) == {apps[i][2] : i \in {j \in DOMAIN apps : apps[j][1] = app}}

\* _validate_app / _validate_source: the error raised, or "ok".
_validate_app(app) == IF app \in ConfiguredApps THEN "ok" ELSE "UnknownApp"

_validate_source(app, source) ==
    IF _validate_app(app) # "ok" THEN _validate_app(app)
    ELSE IF source \in SourcesOf(app) THEN "ok" ELSE "UnknownSource"

\* The names an unknown-name error lists.
Available(app) ==
    IF _validate_app(app) # "ok" THEN ConfiguredApps ELSE SourcesOf(app)

\* [(app, s) for s in self._apps[app]], in configuration order.
\* TargetsFrom without the filter on the application.
RECURSIVE TargetsFromAnyApp(_, _)
TargetsFromAnyApp(i, app) ==
    IF i > Len(apps) THEN <<>>
    ELSE <<apps[i]>> \o TargetsFromAnyApp(i + 1, app)

RECURSIVE TargetsFrom(_, _)
TargetsFrom(i, app) ==
    IF i > Len(apps) THEN <<>>
    ELSE (IF app = NoName \/ apps[i][1] = app THEN <<apps[i]>> ELSE <<>>)
         \o TargetsFrom(i + 1, app)

PathOf(t) == _cache_path(call[t].app, call[t].source)
KeyOf(t) == _cache_key(call[t].app, call[t].source)

CachePaths == DOMAIN extracted

\* The work counters of cache path p once stage st has started its work.
Worked(p, st) ==
    IF failed[p] \/ tampered[p] THEN work
    ELSE [work EXCEPT ![p][st] = IF @ < WorkCap THEN @ + 1 ELSE @]

\* ------------------------------------------------- raising and returning

\* An exception leaves the operation: the caller gets it, nothing else of
\* the operation runs.
Raise(t, err, avail) ==
    /\ pc' = [pc EXCEPT ![t] = "done"]
    /\ res' = [res EXCEPT ![t] = [status |-> err, out |-> <<>>, avail |-> avail]]
    /\ todo' = [todo EXCEPT ![t] = {}]
    /\ buf' = [buf EXCEPT ![t] = {}]
    /\ hits' = [hits EXCEPT ![t] = <<>>]

\* StageRaise caught and logged inside _ensure_ready, which goes on.
StageRaiseSwallowed(t, stage, err) ==
    /\ pc' = [pc EXCEPT ![t] = "ready_add"]
    /\ res' = res
    /\ todo' = [todo EXCEPT ![t] = {}]
    /\ buf' = [buf EXCEPT ![t] = {}]
    /\ hits' = hits
    /\ call' = call
    /\ failed' = [failed EXCEPT ![PathOf(t)] = TRUE]
    /\ work' = [work EXCEPT ![PathOf(t)] = NoWork]
    /\ lastFail' = [lastFail EXCEPT ![PathOf(t)] = stage]

\* StageRaise caught by search, which returns the hits it has so far.
StageRaiseReturningHits(t, stage, err) ==
    /\ pc' = [pc EXCEPT ![t] = "done"]
    /\ res' = [res EXCEPT ![t] =
                  IF call[t].op = "search"
                  THEN [status |-> "ok", out |-> hits[t], avail |-> {}]
                  ELSE [status |-> err, out |-> <<>>, avail |-> {}]]
    /\ todo' = [todo EXCEPT ![t] = {}]
    /\ buf' = [buf EXCEPT ![t] = {}]
    /\ hits' = [hits EXCEPT ![t] = <<>>]
    /\ call' = call
    /\ failed' = [failed EXCEPT ![PathOf(t)] = TRUE]
    /\ work' = [work EXCEPT ![PathOf(t)] = NoWork]
    /\ lastFail' = [lastFail EXCEPT ![PathOf(t)] = stage]

\* A stage of the pipeline raised in caller t's _ensure_ready.
StageRaise(t, stage, err) ==
    /\ Raise(t, err, {})
    /\ call' = call
    /\ failed' = [failed EXCEPT ![PathOf(t)] = TRUE]
    /\ work' = [work EXCEPT ![PathOf(t)] = NoWork]
    /\ lastFail' = [lastFail EXCEPT ![PathOf(t)] = stage]

\* Where the operation goes on once _ensure_ready has returned.
AfterEnsure(t) ==
    CASE call[t].op = "search" -> "query"
      [] call[t].op = "read_page" -> "read"
      [] call[t].op = "list_pages" -> "list"
      [] OTHER -> "done"

\* ----------------------------------------------------------- _ensure_ready

\* _ensure_ready called on its own, as the tests call it.
StartEnsureReady(t) ==
    /\ pc[t] = "idle"
    /\ \E a \in AppNames, s \in SourceNames :
          call' = [call EXCEPT ![t] = [NoCall EXCEPT !.op = "_ensure_ready",
                                                    !.app = a, !.source = s]]
    /\ pc' = [pc EXCEPT ![t] = "ensure"]
    /\ UNCHANGED <<siVars, writing, apps, broken, ready, fsVars, todo, buf, hits, res, trace, histVars>>

\* EnsureEntry that drops a ready key and verifies the pair anew.
EnsureEntryDropping(t) ==
    /\ pc[t] = "ensure"
    /\ IF _validate_source(call[t].app, call[t].source) # "ok"
       THEN /\ Raise(t, _validate_source(call[t].app, call[t].source),
                     Available(call[t].app))
            /\ trace' = [trace EXCEPT ![t] = NoTrace]
            /\ UNCHANGED <<call, lastFail, ready>>
       ELSE /\ pc' = [pc EXCEPT ![t] = "extract"]
            /\ ready' = ready \ {KeyOf(t)}
            /\ trace' = [trace EXCEPT ![t] =
                            [NoTrace EXCEPT !.prevFail = lastFail[PathOf(t)],
                                            !.validated = TRUE]]
            /\ lastFail' = [lastFail EXCEPT ![PathOf(t)] = "none"]
            /\ UNCHANGED <<call, todo, buf, hits, res>>
    /\ UNCHANGED <<siVars, writing, apps, broken, fsVars, work, tampered, failed, removed>>

\* EnsureEntry that remembers a failed pair and raises for it at once.
EnsureEntryCachingFailure(t) ==
    /\ pc[t] = "ensure"
    /\ LET a == call[t].app
           s == call[t].source
           fresh == [NoTrace EXCEPT !.prevFail = lastFail[PathOf(t)]]
       IN  IF KeyOf(t) \in ready
           THEN /\ pc' = [pc EXCEPT ![t] = AfterEnsure(t)]
                /\ trace' = [trace EXCEPT ![t] = [fresh EXCEPT !.early = TRUE]]
                /\ lastFail' = [lastFail EXCEPT ![PathOf(t)] = "none"]
                /\ UNCHANGED <<call, todo, buf, hits, res>>
           ELSE IF _validate_source(a, s) # "ok"
           THEN /\ Raise(t, _validate_source(a, s), Available(a))
                /\ trace' = [trace EXCEPT ![t] = NoTrace]
                /\ UNCHANGED <<call, lastFail>>
           ELSE IF lastFail[PathOf(t)] # "none"
           THEN /\ Raise(t, "OSError", {})
                /\ trace' = [trace EXCEPT ![t] = fresh]
                /\ UNCHANGED <<call, lastFail>>
           ELSE /\ pc' = [pc EXCEPT ![t] = "extract"]
                /\ trace' = [trace EXCEPT ![t] = [fresh EXCEPT !.validated = TRUE]]
                /\ lastFail' = [lastFail EXCEPT ![PathOf(t)] = "none"]
                /\ UNCHANGED <<call, todo, buf, hits, res>>
    /\ UNCHANGED <<siVars, writing, apps, broken, ready, fsVars, work, tampered, failed,
                   removed>>

\* Lines 56-60: the readiness check, then validation.
EnsureEntry(t) ==
    /\ pc[t] = "ensure"
    /\ LET a == call[t].app
           s == call[t].source
           fresh == [NoTrace EXCEPT !.prevFail = lastFail[PathOf(t)]]
       IN  IF KeyOf(t) \in ready
           THEN /\ pc' = [pc EXCEPT ![t] = AfterEnsure(t)]
                /\ trace' = [trace EXCEPT ![t] = [fresh EXCEPT !.early = TRUE]]
                /\ lastFail' = [lastFail EXCEPT ![PathOf(t)] = "none"]
                /\ UNCHANGED <<call, todo, buf, hits, res>>
           ELSE IF _validate_source(a, s) # "ok"
           THEN /\ Raise(t, _validate_source(a, s), Available(a))
                /\ trace' = [trace EXCEPT ![t] = NoTrace]
                /\ UNCHANGED <<call, lastFail>>
           ELSE /\ pc' = [pc EXCEPT ![t] = "extract"]
                /\ trace' = [trace EXCEPT ![t] = [fresh EXCEPT !.validated = TRUE]]
                /\ lastFail' = [lastFail EXCEPT ![PathOf(t)] = "none"]
                /\ UNCHANGED <<call, todo, buf, hits, res>>
    /\ UNCHANGED <<siVars, writing, apps, broken, ready, fsVars, work, tampered, failed, removed>>

\* ExtractEntry without the marker check of lines 86-88.
ExtractEntryNoMarker(t) ==
    /\ pc[t] = "extract"
    /\ trace' = [trace EXCEPT ![t].checked = @ \cup {"extract"}]
    /\ pc' = [pc EXCEPT ![t] = "run7z"]
    /\ UNCHANGED <<siVars, writing, apps, broken, ready, fsVars, call, todo, buf, hits, res,
                   histVars>>

\* _extract, lines 86-90: the marker check, mkdir, _find_7z.
ExtractEntry(t) ==
    /\ pc[t] = "extract"
    /\ trace' = [trace EXCEPT ![t].checked = @ \cup {"extract"}]
    /\ IF extracted[PathOf(t)]
       THEN /\ pc' = [pc EXCEPT ![t] = "convert"]
            /\ UNCHANGED <<call, todo, buf, hits, res, work, failed, lastFail>>
       ELSE \E found \in BOOLEAN :
                IF found
                THEN /\ pc' = [pc EXCEPT ![t] = "run7z"]
                     /\ UNCHANGED <<call, todo, buf, hits, res, work, failed,
                                    lastFail>>
                ELSE StageRaise(t, "extract", "ToolNotFound")
    /\ UNCHANGED <<siVars, writing, apps, broken, ready, fsVars, tampered, removed>>

\* ExtractRun with check=False: a non-zero exit is not noticed.
ExtractRunUnchecked(t) ==
    /\ pc[t] = "run7z"
    /\ trace' = [trace EXCEPT ![t].ran = @ \cup {"extract"}]
    /\ \E part \in PartialOutputs \cup {Archive} :
          html' = [html EXCEPT ![PathOf(t)] = @ \cup part]
    /\ pc' = [pc EXCEPT ![t] = "touch_extracted"]
    /\ work' = Worked(PathOf(t), "extract")
    /\ UNCHANGED <<siVars, writing, apps, broken, ready, extracted, converted, markdown, index, indexed,
                   writelock, call, todo, buf, hits, res, tampered, failed,
                   lastFail, removed>>

\* _extract, lines 91-96: the external tool runs; check=True raises on a
\* non-zero exit, after the tool may have written some of the files.
ExtractRun(t) ==
    /\ pc[t] = "run7z"
    /\ trace' = [trace EXCEPT ![t].ran = @ \cup {"extract"}]
    /\ \E ok \in BOOLEAN :
          IF ok
          THEN /\ html' = [html EXCEPT ![PathOf(t)] = @ \cup Archive]
               /\ pc' = [pc EXCEPT ![t] = "touch_extracted"]
               /\ work' = Worked(PathOf(t), "extract")
               /\ UNCHANGED <<call, todo, buf, hits, res, failed, lastFail>>
          ELSE /\ \E part \in PartialOutputs :
                     html' = [html EXCEPT ![PathOf(t)] = @ \cup part]
               /\ StageRaise(t, "extract", "CalledProcessError")
    /\ UNCHANGED <<siVars, writing, apps, broken, ready, extracted, converted, markdown, index, indexed,
                   writelock, tampered, removed>>

\* ExtractTouch that goes on without writing the marker.
ExtractTouchSkipped(t) ==
    /\ pc[t] = "touch_extracted"
    /\ pc' = [pc EXCEPT ![t] = "convert"]
    /\ UNCHANGED <<siVars, writing, apps, broken, ready, fsVars, call, todo, buf, hits, res, trace,
                   histVars>>

\* _extract, line 97: marker.touch().
ExtractTouch(t) ==
    /\ pc[t] = "touch_extracted"
    /\ extracted' = [extracted EXCEPT ![PathOf(t)] = TRUE]
    /\ pc' = [pc EXCEPT ![t] = "convert"]
    /\ UNCHANGED <<siVars, writing, apps, broken, ready, html, converted, markdown, index, indexed,
                   writelock, call, todo, buf, hits, res, trace, histVars>>

\* ConvertEntry that also skips the stage when the output directory already
\* holds converted documents.
ConvertEntryTrustingOutput(t) ==
    /\ pc[t] = "convert"
    /\ IF converted[PathOf(t)] \/ markdown[PathOf(t)] # {}
       THEN /\ pc' = [pc EXCEPT ![t] = "build_index"]
            /\ trace' = [trace EXCEPT ![t].checked = @ \cup {"convert"},
                                       ![t].gone = removed[PathOf(t)]]
            /\ UNCHANGED <<call, todo, buf, hits, res, work, failed, lastFail>>
       ELSE /\ pc' = [pc EXCEPT ![t] = "convert_loop"]
            /\ todo' = [todo EXCEPT ![t] = html[PathOf(t)]]
            /\ trace' = [trace EXCEPT ![t].checked = @ \cup {"convert"},
                                       ![t].ran = @ \cup {"convert"},
                                       ![t].enum = html[PathOf(t)]]
            /\ work' = Worked(PathOf(t), "convert")
            /\ UNCHANGED <<call, buf, hits, res, failed, lastFail>>
    /\ UNCHANGED <<siVars, writing, apps, broken, ready, fsVars, tampered, removed>>

\* ConvertEntry without the marker check of lines 100-102.
ConvertEntryNoMarker(t) ==
    /\ pc[t] = "convert"
    /\ pc' = [pc EXCEPT ![t] = "convert_loop"]
    /\ todo' = [todo EXCEPT ![t] = html[PathOf(t)]]
    /\ trace' = [trace EXCEPT ![t].checked = @ \cup {"convert"},
                               ![t].ran = @ \cup {"convert"},
                               ![t].enum = html[PathOf(t)],
                               ![t].gone = removed[PathOf(t)]]
    /\ work' = Worked(PathOf(t), "convert")
    /\ UNCHANGED <<siVars, writing, apps, broken, ready, fsVars, call, buf, hits, res, tampered,
                   failed, lastFail, removed>>

\* ConvertEntry that writes .converted before the loop instead of after it.
ConvertEntryMarkingFirst(t) ==
    /\ pc[t] = "convert"
    /\ IF converted[PathOf(t)]
       THEN /\ pc' = [pc EXCEPT ![t] = "build_index"]
            /\ converted' = converted
            /\ trace' = [trace EXCEPT ![t].checked = @ \cup {"convert"},
                                       ![t].gone = removed[PathOf(t)]]
            /\ UNCHANGED <<call, todo, buf, hits, res, work, failed, lastFail>>
       ELSE \E ok \in BOOLEAN :
                IF ok
                THEN /\ pc' = [pc EXCEPT ![t] = "convert_loop"]
                     /\ todo' = [todo EXCEPT ![t] = html[PathOf(t)]]
                     /\ trace' = [trace EXCEPT ![t].checked = @ \cup {"convert"},
                                                ![t].ran = @ \cup {"convert"},
                                                ![t].enum = html[PathOf(t)]]
                     /\ work' = Worked(PathOf(t), "convert")
                     /\ UNCHANGED <<call, buf, hits, res, failed, lastFail>>
                     /\ converted' = [converted EXCEPT ![PathOf(t)] = TRUE]
                ELSE /\ StageRaise(t, "convert", "OSError")
                     /\ converted' = converted
                     /\ trace' = [trace EXCEPT ![t].checked = @ \cup {"convert"}]
    /\ UNCHANGED <<siVars, writing, apps, broken, ready, extracted, html, markdown, index,
                   indexed, writelock, tampered, removed>>

\* _convert, lines 100-110: the marker check, mkdir (which may raise
\* OSError), and the enumeration of the markup files.
ConvertEntry(t) ==
    /\ pc[t] = "convert"
    /\ IF converted[PathOf(t)]
       THEN /\ pc' = [pc EXCEPT ![t] = "build_index"]
            /\ trace' = [trace EXCEPT ![t].checked = @ \cup {"convert"},
                                       ![t].gone = removed[PathOf(t)]]
            /\ UNCHANGED <<call, todo, buf, hits, res, work, failed, lastFail>>
       ELSE \E ok \in BOOLEAN :
                IF ok
                THEN /\ pc' = [pc EXCEPT ![t] = "convert_loop"]
                     /\ todo' = [todo EXCEPT ![t] = html[PathOf(t)]]
                     /\ trace' = [trace EXCEPT ![t].checked = @ \cup {"convert"},
                                                ![t].ran = @ \cup {"convert"},
                                                ![t].enum = html[PathOf(t)]]
                     /\ work' = Worked(PathOf(t), "convert")
                     /\ UNCHANGED <<call, buf, hits, res, failed, lastFail>>
                ELSE /\ StageRaise(t, "convert", "OSError")
                     /\ trace' = [trace EXCEPT ![t].checked = @ \cup {"convert"}]
    /\ UNCHANGED <<siVars, writing, apps, broken, ready, fsVars, tampered, removed>>

\* Documents of cache path p that some caller has open for writing: the
\* file exists and holds none or a part of its text.
Torn(p) ==
    { writing[u] : u \in { v \in Callers : writing[v] # 0 /\ PathOf(v) = p } }

\* ConvertDoc whose loop ends at the first document that cannot be
\* converted.
ConvertDocAborting(t) ==
    /\ pc[t] = "convert_loop"
    /\ todo[t] # {}
    /\ writing[t] = 0
    /\ LET f == NextFile(todo[t])
       IN  IF f \in html[PathOf(t)] /\ f \notin broken
           THEN /\ todo' = todo
                /\ markdown' = [markdown EXCEPT ![PathOf(t)] = @ \cup {MdOf(f)}]
                /\ writing' = [writing EXCEPT ![t] = MdOf(f)]
           ELSE /\ todo' = [todo EXCEPT ![t] = {}]
                /\ markdown' = markdown
                /\ writing' = writing
    /\ UNCHANGED <<siVars, apps, broken, ready, extracted, html, converted, index, indexed,
                   writelock, pc, call, buf, hits, res, trace, histVars>>

\* _convert, lines 111-126: one pass of the loop up to the opening of the
\* output file by write_text, which creates or truncates it.  A document
\* that cannot be read or converted is logged and skipped.
ConvertDoc(t) ==
    /\ pc[t] = "convert_loop"
    /\ todo[t] # {}
    /\ writing[t] = 0
    /\ LET f == NextFile(todo[t])
       IN  IF f \in html[PathOf(t)] /\ f \notin broken
           THEN /\ todo' = todo
                /\ markdown' = [markdown EXCEPT ![PathOf(t)] = @ \cup {MdOf(f)}]
                /\ writing' = [writing EXCEPT ![t] = MdOf(f)]
           ELSE /\ todo' = [todo EXCEPT ![t] = @ \ {f}]
                /\ markdown' = markdown
                /\ writing' = writing
    /\ UNCHANGED <<siVars, apps, broken, ready, extracted, html, converted, index, indexed,
                   writelock, pc, call, buf, hits, res, trace, histVars>>

\* _convert, line 126: write_text writes the text and closes the file.
ConvertWrite(t) ==
    /\ pc[t] = "convert_loop"
    /\ writing[t] # 0
    /\ writing' = [writing EXCEPT ![t] = 0]
    /\ todo' = [todo EXCEPT ![t] = @ \ {NextFile(@)}]
    /\ UNCHANGED <<siVars, apps, broken, ready, fsVars, pc, call, buf, hits, res, trace,
                   histVars>>

\* _convert, line 130: marker.touch() once the loop is over.
ConvertTouch(t) ==
    /\ pc[t] = "convert_loop"
    /\ todo[t] = {}
    /\ writing[t] = 0
    /\ converted' = [converted EXCEPT ![PathOf(t)] = TRUE]
    /\ pc' = [pc EXCEPT ![t] = "build_index"]
    /\ UNCHANGED <<siVars, writing, apps, broken, ready, extracted, html, markdown, index, indexed,
                   writelock, call, todo, buf, hits, res, trace, histVars>>

\* BuildIndexEntry without the marker check of lines 133-135.
BuildIndexEntryNoMarker(t) ==
    /\ pc[t] = "build_index"
    /\ index' = [index EXCEPT ![PathOf(t)] = [exists |-> TRUE, docs |-> {}]]
    /\ trace' = [trace EXCEPT ![t].checked = @ \cup {"index"},
                               ![t].ran = @ \cup {"index"}]
    /\ writelock' = [writelock EXCEPT ![PathOf(t)] = t]
    /\ work' = Worked(PathOf(t), "index")
    /\ pc' = [pc EXCEPT ![t] = "index_loop"]
    /\ todo' = [todo EXCEPT ![t] = markdown[PathOf(t)]]
    /\ buf' = [buf EXCEPT ![t] = {}]
    /\ UNCHANGED <<siVars, writing, apps, broken, ready, extracted, html, converted, markdown, indexed,
                   call, hits, res, tampered, failed, lastFail, removed>>

\* _build_index, lines 133-146: the marker check, mkdir, create_in (a new,
\* empty index replaces what index/ held), ix.writer() (LockError when the
\* write lock is held) and the enumeration of the converted documents.
BuildIndexEntry(t) ==
    /\ pc[t] = "build_index"
    /\ IF indexed[PathOf(t)]
       THEN /\ pc' = [pc EXCEPT ![t] = "ready_add"]
            /\ trace' = [trace EXCEPT ![t].checked = @ \cup {"index"}]
            /\ UNCHANGED <<index, writelock, call, todo, buf, hits, res, work,
                           failed, lastFail>>
       ELSE \E ok \in BOOLEAN :
              IF ~ok
              THEN /\ StageRaise(t, "index", "OSError")
                   /\ trace' = [trace EXCEPT ![t].checked = @ \cup {"index"}]
                   /\ UNCHANGED <<index, writelock>>
              ELSE /\ index' = [index EXCEPT ![PathOf(t)] =
                                   [exists |-> TRUE, docs |-> {}]]
                   /\ trace' = [trace EXCEPT ![t].checked = @ \cup {"index"},
                                              ![t].ran = @ \cup {"index"}]
                   /\ IF writelock[PathOf(t)] # "free"
                      THEN /\ StageRaise(t, "index", "LockError")
                           /\ UNCHANGED writelock
                      ELSE /\ writelock' = [writelock EXCEPT ![PathOf(t)] = t]
                           /\ work' = Worked(PathOf(t), "index")
                           /\ pc' = [pc EXCEPT ![t] = "index_loop"]
                           /\ todo' = [todo EXCEPT ![t] = markdown[PathOf(t)]]
                           /\ buf' = [buf EXCEPT ![t] = {}]
                           /\ UNCHANGED <<call, hits, res, failed, lastFail>>
    /\ UNCHANGED <<siVars, writing, apps, broken, ready, extracted, html, converted, markdown, indexed,
                   tampered, removed>>

\* _build_index, lines 146-161: one pass of the loop.  A document that
\* cannot be read (it was deleted since the enumeration) is logged and
\* skipped.
IndexDoc(t) ==
    /\ pc[t] = "index_loop"
    /\ todo[t] # {}
    /\ LET d == CHOOSE x \in todo[t] : \A y \in todo[t] : x <= y
           read == d \in markdown[PathOf(t)]
       IN  /\ todo' = [todo EXCEPT ![t] = @ \ {d}]
           /\ buf' = IF read THEN [buf EXCEPT ![t] = @ \cup {d}] ELSE buf
           /\ trace' = IF read /\ d \in Torn(PathOf(t))
                        THEN [trace EXCEPT ![t].torn = @ \cup {d}]
                        ELSE trace
    /\ UNCHANGED <<siVars, writing, apps, broken, ready, fsVars, pc, call, hits, res, histVars>>

\* _build_index, line 163: writer.commit() publishes the writer's
\* documents and releases the write lock.
IndexCommit(t) ==
    /\ pc[t] = "index_loop"
    /\ todo[t] = {}
    /\ index' = [index EXCEPT ![PathOf(t)] = [exists |-> TRUE, docs |-> buf[t]]]
    /\ writelock' = [writelock EXCEPT ![PathOf(t)] = "free"]
    /\ buf' = [buf EXCEPT ![t] = {}]
    /\ pc' = [pc EXCEPT ![t] = "touch_indexed"]
    /\ UNCHANGED <<siVars, writing, apps, broken, ready, extracted, html, converted, markdown, indexed,
                   call, todo, hits, res, trace, histVars>>

\* IndexTouch that goes on without writing the marker.
IndexTouchSkipped(t) ==
    /\ pc[t] = "touch_indexed"
    /\ pc' = [pc EXCEPT ![t] = "ready_add"]
    /\ UNCHANGED <<siVars, writing, apps, broken, ready, fsVars, call, todo, buf, hits, res, trace,
                   histVars>>

\* _build_index, line 164: marker.touch().
IndexTouch(t) ==
    /\ pc[t] = "touch_indexed"
    /\ indexed' = [indexed EXCEPT ![PathOf(t)] = TRUE]
    /\ pc' = [pc EXCEPT ![t] = "ready_add"]
    /\ UNCHANGED <<siVars, writing, apps, broken, ready, extracted, html, converted, markdown, index,
                   writelock, call, todo, buf, hits, res, trace, histVars>>

\* _ensure_ready, line 64: self._ready.add(key), and the return.
ReadyAdd(t) ==
    /\ pc[t] = "ready_add"
    /\ ready' = ready \cup {KeyOf(t)}
    /\ trace' = [trace EXCEPT ![t].added = TRUE]
    /\ pc' = [pc EXCEPT ![t] = AfterEnsure(t)]
    /\ UNCHANGED <<siVars, writing, apps, broken, fsVars, call, todo, buf, hits, res, histVars>>

\* ------------------------------------------------------------------ search

Queries == {"all", "one", "bad"}

\* parser.parse(query) raises on "bad".
Parses(q) == q # "bad"

\* Whether document d of an index matches the parsed query.
Matches(q, d) == q = "all" \/ (q = "one" /\ d = 1)

\* hit.score, in thousandths: it depends on the query, on the document and
\* on the index the document is in.
RawScore(s, q, d) ==
    IF q = "one" THEN 2345 ELSE 1000 + 3 * d + (IF s = SrcN THEN 20 ELSE 0)

\* round(hit.score, 2), in hundredths.
Round2(x) == (x + 5) \div 10

Hit(a, s, q, d) ==
    [app |-> a, source |-> s, doc |-> d, score |-> Round2(RawScore(s, q, d))]

Truncate(seq, n) == SubSeq(seq, 1, IF Len(seq) < n THEN Len(seq) ELSE n)

\* list.sort(key=score, reverse=True): stable, equal scores keep their order.
RECURSIVE InsertDesc(_, _)
InsertDesc(h, seq) ==
    IF seq = <<>> THEN <<h>>
    ELSE IF Head(seq).score <= h.score THEN <<h>> \o seq
         ELSE <<Head(seq)>> \o InsertDesc(h, Tail(seq))

RECURSIVE SortDesc(_)
SortDesc(seq) ==
    IF seq = <<>> THEN <<>> ELSE InsertDesc(Head(seq), SortDesc(Tail(seq)))

RECURSIVE HitsOf(_, _, _, _)
HitsOf(a, s, q, docs) ==
    IF docs = <<>> THEN <<>>
    ELSE (IF Matches(q, Head(docs)) THEN <<Hit(a, s, q, Head(docs))>> ELSE <<>>)
         \o HitsOf(a, s, q, Tail(docs))

\* SearcherSearch that asks each index for its best hit only.
SearcherSearchTopOne(a, s, q, limit, p) ==
    Truncate(SortDesc(HitsOf(a, s, q, SortedSeq(index[p].docs))), 1)

\* searcher.search(parsed, limit=limit) on the index of cache path p.
SearcherSearch(a, s, q, limit, p) ==
    Truncate(SortDesc(HitsOf(a, s, q, SortedSeq(index[p].docs))), limit)

\* StartSearch without the scope check of lines 178-179.
StartSearchAnyScope(t) ==
    /\ pc[t] = "idle"
    /\ \E q \in Queries, a \in AppNames \cup {NoName},
          s \in SourceNames \cup {NoName}, limit \in 1..MaxLimit :
          LET c == [NoCall EXCEPT !.op = "search", !.query = q, !.limit = limit,
                                   !.scope = <<a, s>>]
              targets == IF a # NoName /\ s # NoName THEN << <<a, s>> >>
                         ELSE TargetsFrom(1, a)
          IN  IF a # NoName /\ s = NoName /\ _validate_app(a) # "ok"
              THEN /\ Raise(t, "UnknownApp", Available(a))
                   /\ call' = [call EXCEPT ![t] = [c EXCEPT !.app = a]]
              ELSE IF targets = <<>>
              THEN /\ pc' = [pc EXCEPT ![t] = "done"]
                   /\ res' = [res EXCEPT ![t] = [NoRes EXCEPT !.status = "ok"]]
                   /\ call' = [call EXCEPT ![t] = c]
                   /\ UNCHANGED <<todo, buf, hits>>
              ELSE /\ pc' = [pc EXCEPT ![t] = "ensure"]
                   /\ call' = [call EXCEPT ![t] =
                                  [c EXCEPT !.app = targets[1][1],
                                            !.source = targets[1][2],
                                            !.rest = Tail(targets)]]
                   /\ UNCHANGED <<todo, buf, hits, res>>
    /\ UNCHANGED <<siVars, writing, apps, broken, ready, fsVars, trace, histVars>>

\* search, lines 178-190: the scope check and the target pairs.
StartSearch(t) ==
    /\ pc[t] = "idle"
    /\ \E q \in Queries, a \in AppNames \cup {NoName},
          s \in SourceNames \cup {NoName}, limit \in 1..MaxLimit :
          LET c == [NoCall EXCEPT !.op = "search", !.query = q, !.limit = limit,
                                   !.scope = <<a, s>>]
              targets == IF a # NoName /\ s # NoName THEN << <<a, s>> >>
                         ELSE TargetsFrom(1, a)
          IN  IF s # NoName /\ a = NoName
              THEN /\ Raise(t, "InvalidScope", {})
                   /\ call' = [call EXCEPT ![t] = c]
              ELSE IF a # NoName /\ s = NoName /\ _validate_app(a) # "ok"
              THEN /\ Raise(t, "UnknownApp", Available(a))
                   /\ call' = [call EXCEPT ![t] = [c EXCEPT !.app = a]]
              ELSE IF targets = <<>>
              THEN /\ pc' = [pc EXCEPT ![t] = "done"]
                   /\ res' = [res EXCEPT ![t] = [NoRes EXCEPT !.status = "ok"]]
                   /\ call' = [call EXCEPT ![t] = c]
                   /\ UNCHANGED <<todo, buf, hits>>
              ELSE /\ pc' = [pc EXCEPT ![t] = "ensure"]
                   /\ call' = [call EXCEPT ![t] =
                                  [c EXCEPT !.app = targets[1][1],
                                            !.source = targets[1][2],
                                            !.rest = Tail(targets)]]
                   /\ UNCHANGED <<todo, buf, hits, res>>
    /\ UNCHANGED <<siVars, writing, apps, broken, ready, fsVars, trace, histVars>>

\* search, lines 195-221: the query of one target's index, then the next
\* target or the final sort and cut.
Query(t) ==
    /\ pc[t] = "query"
    /\ LET c == call[t]
           p == PathOf(t)
           got == IF index[p].exists
                  THEN hits[t] \o SearcherSearch(c.app, c.source, c.query, c.limit, p)
                  ELSE hits[t]
       IN  IF index[p].exists /\ ~Parses(c.query)
           THEN /\ pc' = [pc EXCEPT ![t] = "done"]
                /\ res' = [res EXCEPT ![t] = [NoRes EXCEPT !.status = "ok"]]
                /\ hits' = [hits EXCEPT ![t] = <<>>]
                /\ call' = call
           ELSE IF c.rest = <<>>
           THEN /\ pc' = [pc EXCEPT ![t] = "done"]
                /\ res' = [res EXCEPT ![t] =
                              [NoRes EXCEPT !.status = "ok",
                                            !.out = Truncate(SortDesc(got), c.limit)]]
                /\ hits' = [hits EXCEPT ![t] = <<>>]
                /\ call' = call
           ELSE /\ pc' = [pc EXCEPT ![t] = "ensure"]
                /\ hits' = [hits EXCEPT ![t] = got]
                /\ call' = [call EXCEPT ![t].app = c.rest[1][1],
                                        ![t].source = c.rest[1][2],
                                        ![t].rest = Tail(c.rest)]
                /\ res' = res
    /\ UNCHANGED <<siVars, writing, apps, broken, ready, fsVars, todo, buf, trace, histVars>>

\* --------------------------------------------------------------- read_page

\* ResolveFrom that keeps the ".." components.
RECURSIVE ResolveFromKeepingDots(_, _, _)
ResolveFromKeepingDots(p, i, acc) ==
    IF i > Len(p) THEN acc
    ELSE ResolveFromKeepingDots(p, i + 1, Append(acc, p[i]))

\* Path.resolve() without symbolic links: ".." steps up, never above the root.
RECURSIVE ResolveFrom(_, _, _)
ResolveFrom(p, i, acc) ==
    IF i > Len(p) THEN acc
    ELSE IF p[i] = DotDot
         THEN ResolveFrom(p, i + 1,
                          IF Len(acc) > 1 THEN SubSeq(acc, 1, Len(acc) - 1) ELSE acc)
         ELSE ResolveFrom(p, i + 1, Append(acc, p[i]))

Resolve(p) == ResolveFrom(p, 1, <<>>)

\* PurePath.is_relative_to
IsRelativeTo(p, base) ==
    Len(p) >= Len(base) /\ SubSeq(p, 1, Len(base)) = base

MdDir(a, s) == Join(_cache_path(a, s), <<MarkdownDirName>>)

\* Path.is_file() for a resolved path: the converted documents of the
\* cache directories.
IsFile(r) ==
    \E p \in CachePaths : \E d \in markdown[p] :
        r = Join(p, <<MarkdownDirName, MdFile(d)>>)

\* The page paths callers pass to read_page.
PagePaths ==
    { <<MdFile(1)>>,
      <<MdFile(NumDocs + 1)>>,
      <<DotDot, DotDot, <<"e">>>>,
      <<DotDot, MarkdownDirName, MdFile(1)>>,
      <<Root, <<"e">>>> }

\* read_page, line 238.
StartReadPage(t) ==
    /\ pc[t] = "idle"
    /\ \E a \in AppNames, s \in SourceNames :
          LET c == [NoCall EXCEPT !.op = "read_page", !.app = a, !.source = s]
          IN  /\ call' = [call EXCEPT ![t] = c]
              /\ IF _validate_source(a, s) # "ok"
                 THEN Raise(t, _validate_source(a, s), Available(a))
                 ELSE /\ pc' = [pc EXCEPT ![t] = "ensure"]
                      /\ UNCHANGED <<todo, buf, hits, res>>
    /\ UNCHANGED <<siVars, writing, apps, broken, ready, fsVars, trace, histVars>>

\* read_page, lines 241-251.  path is first read here, so it is drawn
\* here.
Read(t) ==
    /\ pc[t] = "read"
    /\ \E path \in PagePaths :
          LET md_dir == MdDir(call[t].app, call[t].source)
              resolved == Resolve(Join(md_dir, path))
          IN  /\ call' = [call EXCEPT ![t].path = path]
              /\ IF ~IsRelativeTo(resolved, Resolve(md_dir))
                 THEN Raise(t, "PathTraversal", {})
                 ELSE IF ~IsFile(resolved)
                 THEN Raise(t, "PageNotFound", {})
                 ELSE /\ pc' = [pc EXCEPT ![t] = "done"]
                      /\ res' = [res EXCEPT ![t] =
                                    [NoRes EXCEPT !.status = "ok",
                                                  !.out = <<resolved>>]]
                      /\ UNCHANGED <<todo, buf, hits>>
    /\ UNCHANGED <<siVars, writing, apps, broken, ready, fsVars, trace, histVars>>

\* -------------------------------------------------------------- list_pages

\* pages[offset : offset + limit]
\* Slice written as pages[offset:limit].
SliceUpToLimit(seq, offset, limit) ==
    IF offset >= Len(seq) THEN <<>>
    ELSE SubSeq(seq, offset + 1, IF limit > Len(seq) THEN Len(seq) ELSE limit)

Slice(seq, offset, limit) ==
    IF offset >= Len(seq) THEN <<>>
    ELSE SubSeq(seq, offset + 1,
                IF offset + limit > Len(seq) THEN Len(seq) ELSE offset + limit)

\* list_pages, line 265.
StartListPages(t) ==
    /\ pc[t] = "idle"
    /\ \E a \in AppNames, s \in SourceNames :
          LET c == [NoCall EXCEPT !.op = "list_pages", !.app = a, !.source = s]
          IN  /\ call' = [call EXCEPT ![t] = c]
              /\ IF _validate_source(a, s) # "ok"
                 THEN Raise(t, _validate_source(a, s), Available(a))
                 ELSE /\ pc' = [pc EXCEPT ![t] = "ensure"]
                      /\ UNCHANGED <<todo, buf, hits, res>>
    /\ UNCHANGED <<siVars, writing, apps, broken, ready, fsVars, trace, histVars>>

\* list_pages, lines 268-284.  limit and offset are first read here, so
\* they are drawn here.
List(t) ==
    /\ pc[t] = "list"
    /\ \E limit \in 0..MaxLimit, offset \in 0..(NumDocs + 1) :
          /\ call' = [call EXCEPT ![t].limit = limit, ![t].offset = offset]
          /\ res' = [res EXCEPT ![t] =
                        [NoRes EXCEPT !.status = "ok",
                            !.out = Slice(SortedSeq(markdown[PathOf(t)]), offset, limit)]]
    /\ pc' = [pc EXCEPT ![t] = "done"]
    /\ UNCHANGED <<siVars, writing, apps, broken, ready, fsVars, todo, buf, hits, trace, histVars>>

\* ------------------------------------------------- list_apps, list_sources

list_apps(t) ==
    /\ pc[t] = "idle"
    /\ pc' = [pc EXCEPT ![t] = "done"]
    /\ call' = [call EXCEPT ![t] = [NoCall EXCEPT !.op = "list_apps"]]
    /\ res' = [res EXCEPT ![t] = [NoRes EXCEPT !.status = "ok",
                                               !.avail = ConfiguredApps]]
    /\ UNCHANGED <<siVars, writing, apps, broken, ready, fsVars, todo, buf, hits, trace, histVars>>

list_sources(t) ==
    /\ pc[t] = "idle"
    /\ \E a \in AppNames :
          /\ call' = [call EXCEPT ![t] = [NoCall EXCEPT !.op = "list_sources",
                                                        !.app = a]]
          /\ IF _validate_app(a) # "ok"
             THEN Raise(t, "UnknownApp", Available(a))
             ELSE /\ pc' = [pc EXCEPT ![t] = "done"]
                  /\ res' = [res EXCEPT ![t] = [NoRes EXCEPT !.status = "ok",
                                                             !.avail = SourcesOf(a)]]
                  /\ UNCHANGED <<todo, buf, hits>>
    /\ UNCHANGED <<siVars, writing, apps, broken, ready, fsVars, trace, histVars>>

\* The caller takes the result or the exception; the operation is over.
Return(t) ==
    /\ pc[t] = "done"
    /\ pc' = [pc EXCEPT ![t] = "idle"]
    /\ call' = [call EXCEPT ![t] = NoCall]
    /\ res' = [res EXCEPT ![t] = NoRes]
    /\ trace' = [trace EXCEPT ![t] = NoTrace]
    /\ UNCHANGED <<siVars, writing, apps, broken, ready, fsVars, todo, buf, hits, histVars>>

\* ------------------------------------------------------------- environment

\* The process ends and a new one is constructed with the same
\* configuration over the same cache directory: self._ready is empty again.
Restart ==
    /\ \A t \in Callers : pc[t] = "idle"
    /\ ready # {}
    /\ ready' = {}
    /\ UNCHANGED <<siVars, writing, apps, broken, fsVars, callVars, histVars>>

\* Someone outside the program deletes a completion marker, between two
\* calls of the program.
DeleteMarker ==
    /\ \A t \in Callers : pc[t] = "idle"
    /\ \E p \in CachePaths, st \in Stages :
          /\ CASE st = "extract" -> extracted[p]
                [] st = "convert" -> converted[p]
                [] OTHER -> indexed[p]
          /\ extracted' = IF st = "extract" THEN [extracted EXCEPT ![p] = FALSE]
                          ELSE extracted
          /\ converted' = IF st = "convert" THEN [converted EXCEPT ![p] = FALSE]
                          ELSE converted
          /\ indexed' = IF st = "index" THEN [indexed EXCEPT ![p] = FALSE]
                        ELSE indexed
          /\ tampered' = [tampered EXCEPT ![p] = TRUE]
          /\ work' = [work EXCEPT ![p] = NoWork]
    /\ UNCHANGED <<siVars, writing, apps, broken, ready, html, markdown, index, writelock, callVars,
                   failed, lastFail, removed>>

\* Someone outside the program deletes a converted document of a finished
\* conversion.
DeleteFile ==
    /\ \E p \in CachePaths, d \in Docs :
          /\ converted[p]
          /\ d \in markdown[p]
          /\ markdown' = [markdown EXCEPT ![p] = @ \ {d}]
          /\ removed' = [removed EXCEPT ![p] = @ \cup {d}]
    /\ UNCHANGED <<siVars, writing, apps, broken, ready, extracted, html, converted, index, indexed,
                   writelock, callVars, work, tampered, failed, lastFail>>

\* ------------------------------------------ utils/search.py: SearchIndex

\* The documents handed to build.  A document is its path and the bm25()
\* value, in thousandths, the engine gives it for a query it matches; the
\* insertion of a document with the path "x" raises.
SiDocs ==
    { [path |-> "p", raw |-> -2345], [path |-> "q", raw |-> -4],
      [path |-> "q", raw |-> 120], [path |-> "x", raw |-> -4] }

RECURSIVE SeqsUpTo(_, _)
SeqsUpTo(S, n) ==
    IF n = 0 THEN {<<>>}
    ELSE LET shorter == SeqsUpTo(S, n - 1)
         IN  shorter \cup { Append(q, x) : q \in shorter, x \in S }

\* The document lists build is called with.
SiInputs == SeqsUpTo(SiDocs, MaxBuild)

\* The INSERT of lines 52-55, which raises for some documents.
Inserts(doc) == doc.path # "x"

RECURSIVE Inserted(_)
Inserted(docs) ==
    IF docs = <<>> THEN <<>>
    ELSE (IF Inserts(Head(docs)) THEN <<Head(docs)>> ELSE <<>>)
         \o Inserted(Tail(docs))

\* SiBuild without the marker check of lines 41-42.
SiBuildAlways ==
    /\ \E docs \in SiInputs :
          /\ siOut' = [NoOut EXCEPT !.op = "build", !.given = Len(docs),
                                    !.status = "ok"]
          /\ siDb' = [exists |-> TRUE, rows |-> Inserted(docs)]
          /\ siMarker' = TRUE
    /\ UNCHANGED <<apps, broken, ready, fsVars, callVars, histVars, writing>>

\* build, lines 41-62.
SiBuild ==
    /\ \E docs \in SiInputs :
          /\ siOut' = [NoOut EXCEPT !.op = "build", !.given = Len(docs),
                                    !.status = "ok"]
          /\ IF siMarker
             THEN UNCHANGED <<siMarker, siDb>>
             ELSE /\ siDb' = [exists |-> TRUE, rows |-> Inserted(docs)]
                  /\ siMarker' = TRUE
    /\ UNCHANGED <<apps, broken, ready, fsVars, callVars, histVars, writing>>

\* MATCH: which rows a query that parses selects.
SiMatches(q, doc) == q = "all" \/ (q = "one" /\ doc.path = "p")

\* ORDER BY bm25(docs): the matching rows, lowest value first; the order of
\* rows of equal value is the engine's choice.
SiOrderings(q) ==
    LET M == { i \in 1..Len(siDb.rows) : SiMatches(q, siDb.rows[i]) }
    IN  { o \in [1..Cardinality(M) -> M] :
            /\ \A i, j \in 1..Cardinality(M) : i # j => o[i] # o[j]
            /\ \A i, j \in 1..Cardinality(M) :
                  i < j => siDb.rows[o[i]].raw <= siDb.rows[o[j]].raw }

\* LIMIT ?: a negative limit is no limit.
SiLimit(seq, limit) == IF limit < 0 THEN seq ELSE Truncate(seq, limit)

\* Exposed without the clamp max(., 0.0).
ExposedUnclamped(raw) == (-raw + 5) \div 10

\* int(max(-score, 0.0) * 100 + 0.5) / 100, in hundredths.
Exposed(raw) == ((IF -raw > 0 THEN -raw ELSE 0) + 5) \div 10

\* Lines 94-101.  The row's bm25() value is kept next to the score.
SiResult(row) == [path |-> row.path, raw |-> row.raw, score |-> Exposed(row.raw)]

\* SiSearch without the except clause of lines 87-89.
SiSearchRaising ==
    /\ \E q \in Queries, limit \in 0..MaxLimit :
          LET o == [NoOut EXCEPT !.op = "search", !.query = q, !.limit = limit,
                                   !.status = "ok"]
          IN  IF ~siDb.exists
              THEN siOut' = o
              ELSE IF ~Parses(q)
              THEN siOut' = [o EXCEPT !.status = "OperationalError"]
              ELSE \E ord \in SiOrderings(q) :
                      LET rows == SiLimit(ord, limit)
                          results == [ i \in 1..Len(rows) |->
                                         SiResult(siDb.rows[rows[i]]) ]
                      IN  siOut' = [o EXCEPT !.out = SortDesc(results)]
    /\ UNCHANGED <<siMarker, siDb>>
    /\ UNCHANGED <<apps, broken, ready, fsVars, callVars, histVars, writing>>

\* search, lines 75-103.
SiSearch ==
    /\ \E q \in Queries, limit \in 0..MaxLimit :
          LET o == [NoOut EXCEPT !.op = "search", !.query = q, !.limit = limit,
                                   !.status = "ok"]
          IN  IF ~siDb.exists \/ ~Parses(q)
              THEN siOut' = o
              ELSE \E ord \in SiOrderings(q) :
                      LET rows == SiLimit(ord, limit)
                          results == [ i \in 1..Len(rows) |->
                                         SiResult(siDb.rows[rows[i]]) ]
                      IN  siOut' = [o EXCEPT !.out = SortDesc(results)]
    /\ UNCHANGED <<siMarker, siDb>>
    /\ UNCHANGED <<apps, broken, ready, fsVars, callVars, histVars, writing>>

\* Someone outside the program deletes .indexed, to force a rebuild.
SiDeleteMarker ==
    /\ siMarker
    /\ siMarker' = FALSE
    /\ UNCHANGED <<siDb, siOut>>
    /\ UNCHANGED <<apps, broken, ready, fsVars, callVars, histVars, writing>>

\* ---------------------------------------------------------- specifications

\* The steps of _ensure_ready and of the stages it runs.
Pipeline(t) ==
    \/ EnsureEntry(t)
    \/ ExtractEntry(t)
    \/ ExtractRun(t)
    \/ ExtractTouch(t)
    \/ ConvertEntry(t)
    \/ ConvertDoc(t)
    \/ ConvertWrite(t)
    \/ ConvertTouch(t)
    \/ BuildIndexEntry(t)
    \/ IndexDoc(t)
    \/ IndexCommit(t)
    \/ IndexTouch(t)
    \/ ReadyAdd(t)

\* The operations of the extractor.
Operations(t) ==
    \/ StartEnsureReady(t)
    \/ StartSearch(t)
    \/ StartReadPage(t)
    \/ StartListPages(t)
    \/ list_apps(t)
    \/ list_sources(t)
    \/ Query(t)
    \/ Read(t)
    \/ List(t)
    \/ Return(t)

\* One thread of control: the synchronous, single-caller use of section 5
\* of the specification.  Nobody deletes a marker.
NextSeq == Operations("t1") \/ Pipeline("t1") \/ Restart \/ DeleteFile

SpecSeq == Init /\ [][NextSeq]_vars

\* Concurrent first accesses: the callers run _ensure_ready on one
\* extractor object.  Nobody deletes a marker or a file.
Next ==
    \/ \E t \in Callers : StartEnsureReady(t) \/ Pipeline(t) \/ Return(t)
    \/ Restart

Spec == Init /\ [][Next]_vars

\* One thread of control running _ensure_ready, and markers deleted from
\* outside between the calls.
NextTamper ==
    \/ StartEnsureReady("t1") \/ Pipeline("t1") \/ Return("t1")
    \/ Restart
    \/ DeleteMarker

SpecTamper == Init /\ [][NextTamper]_vars

\* One thread of control running search on an extractor configured with
\* none, one or two sources, of one or two applications.
NextSearch ==
    \/ StartSearch("t1") \/ Pipeline("t1") \/ Query("t1") \/ Return("t1")
    \/ Restart

InitSearch == InitWith(Configs)

SpecSearch == InitSearch /\ [][NextSearch]_vars

\* One thread of control that calls _ensure_ready for the rest of the
\* process.  The caller keeps calling it for the configured pair, the code
\* goes on once it is entered, and no stage fails for ever: the tool is
\* found, the tool exits with zero, and the directories and the index can
\* be created, each at some attempt.
TheApp == Config1[1][1]
TheSource == Config1[1][2]

CallsThePair(t) == call[t].app = TheApp /\ call[t].source = TheSource

NextLive == StartEnsureReady("t1") \/ Pipeline("t1") \/ Return("t1")

Fairness ==
    /\ WF_vars(Pipeline("t1") \/ Return("t1"))
    /\ SF_vars(StartEnsureReady("t1") /\ CallsThePair("t1")')
    /\ SF_vars(ExtractEntry("t1") /\ pc'["t1"] # "done")
    /\ SF_vars(ExtractRun("t1") /\ pc'["t1"] # "done")
    /\ SF_vars(ConvertEntry("t1") /\ pc'["t1"] # "done")
    /\ SF_vars(BuildIndexEntry("t1") /\ pc'["t1"] # "done")

SpecLive == Init /\ [][NextLive]_vars /\ Fairness

\* One SearchIndex object on its own directory.
NextIndex == SiBuild \/ SiSearch \/ SiDeleteMarker

InitIndex == Init /\ broken = {}

SpecIndex == InitIndex /\ [][NextIndex]_vars

\* ------------------------------------------------------------------ claims

StageErrors == {"ToolNotFound", "CalledProcessError", "OSError", "LockError"}

Before(st) ==
    CASE st = "extract" -> {}
      [] st = "convert" -> {"extract"}
      [] st = "index" -> {"extract", "convert"}
      [] OTHER -> {}

After(st) ==
    CASE st = "extract" -> {"convert", "index"}
      [] st = "convert" -> {"index"}
      [] OTHER -> {}

\* The cache directory a cache key of the readiness set stands for.
PathOfKey(k) == Join(CacheDir, Split(k))

AllMarked(p) == extracted[p] /\ converted[p] /\ indexed[p]

\* The running or just finished call of t went through _ensure_ready on a
\* configured cache directory.
OnCache(t) == call[t].op # "none" /\ PathOf(t) \in CachePaths

\* C1: with one thread of control, no stage failure and no marker deleted,
\* the work of each stage of a pair is started at most once over any
\* sequence of calls (process restarts included), and a call that finds the
\* pair in the readiness set checks no marker and runs no stage.
C1_StageWorkAtMostOnce ==
    /\ \A p \in CachePaths :
          ~failed[p] => \A st \in Stages : work[p][st] <= 1
    /\ \A t \in Callers :
          trace[t].early => trace[t].ran = {} /\ trace[t].checked = {}

C1_Witness ==
    \E t \in Callers :
        /\ pc[t] = "done"
        /\ trace[t].early
        /\ ~failed[PathOf(t)]
        /\ \A st \in Stages : work[PathOf(t)][st] = 1

\* C2: a stage whose marker is present when _ensure_ready reaches it is
\* skipped and leaves its output as it is: a converted document deleted
\* after .converted was written is never written again, and the step that
\* finds a marker changes no file, no marker and no index.
C2_SkipLeavesOutput ==
    \A t \in Callers :
        /\ (pc[t] = "extract" /\ pc'[t] # pc[t] /\ extracted[PathOf(t)])
             => pc'[t] = "convert" /\ UNCHANGED fsVars
        /\ (pc[t] = "convert" /\ pc'[t] # pc[t] /\ converted[PathOf(t)])
             => pc'[t] = "build_index" /\ UNCHANGED fsVars
        /\ (pc[t] = "build_index" /\ pc'[t] # pc[t] /\ indexed[PathOf(t)])
             => pc'[t] = "ready_add" /\ UNCHANGED fsVars

C2_MarkerWinsOverContent ==
    /\ [](\A p \in CachePaths : removed[p] \cap markdown[p] = {})
    /\ [][C2_SkipLeavesOutput]_vars

C2_Witness ==
    \E t \in Callers :
        /\ pc[t] = "done"
        /\ trace[t].added
        /\ trace[t].gone # {}
        /\ trace[t].gone \cap markdown[PathOf(t)] = {}

\* C3: in every call of _ensure_ready the stages are entered in the order
\* extraction, conversion, indexing: conversion is entered only with
\* extraction entered before it and .extracted present, indexing only with
\* conversion entered before it and .converted present, and the key is
\* added only with all three stages entered and all three markers present.
C3_StagesInOrder ==
    \A t \in Callers :
        /\ pc[t] \in {"extract", "run7z", "touch_extracted"}
             => trace[t].checked \subseteq {"extract"}
        /\ pc[t] \in {"convert", "convert_loop"}
             => /\ extracted[PathOf(t)]
                /\ "extract" \in trace[t].checked
                /\ "index" \notin trace[t].checked
        /\ pc[t] \in {"build_index", "index_loop", "touch_indexed"}
             => /\ extracted[PathOf(t)] /\ converted[PathOf(t)]
                /\ {"extract", "convert"} \subseteq trace[t].checked
                /\ ~trace[t].added
        /\ (pc[t] = "ready_add" \/ trace[t].added)
             => AllMarked(PathOf(t)) /\ trace[t].checked = Stages

C3_Witness ==
    \E t \in Callers : pc[t] = "ready_add" /\ trace[t].ran = Stages

\* C4: when a stage raises in _ensure_ready the operation is over at once
\* with that exception for the caller, no later stage has been entered in
\* the call, and the key is not in the readiness set.
C4_FailurePropagates ==
    \A t \in Callers :
        (OnCache(t) /\ pc[t] # "ensure" /\ lastFail[PathOf(t)] # "none")
            => /\ pc[t] = "done"
               /\ res[t].status \in StageErrors
               /\ res[t].out = <<>>
               /\ KeyOf(t) \notin ready
               /\ ~trace[t].added
               /\ trace[t].checked \cap After(lastFail[PathOf(t)]) = {}

C4_Witness ==
    \E t \in Callers :
        /\ pc[t] = "done"
        /\ res[t].status = "OSError"
        /\ lastFail[PathOf(t)] = "convert"
        /\ "extract" \in trace[t].ran

\* C5: the call of _ensure_ready that follows a failed one for the same
\* pair validates the pair again, runs none of the stages that were
\* complete before the failure, and, when it succeeds, has checked all
\* three markers and run exactly the failed stage and the stages after it.
C5_RetryRunsTheRest ==
    \A t \in Callers :
        trace[t].prevFail # "none"
            => /\ trace[t].validated
               /\ ~trace[t].early
               /\ trace[t].ran \cap Before(trace[t].prevFail) = {}
               /\ trace[t].added
                    => /\ trace[t].checked = Stages
                       /\ trace[t].ran = Stages \ Before(trace[t].prevFail)

C5_Witness ==
    \E t \in Callers :
        /\ trace[t].prevFail = "convert"
        /\ trace[t].added
        /\ trace[t].ran = {"convert", "index"}

\* C6: .extracted exists only after a run of the tool that exited with
\* status zero wrote the whole archive; the tool is run only while the
\* marker is absent; and after ToolNotFound or a failed run the marker is
\* absent, so that the next call, once past the marker check and the tool
\* lookup, runs the tool again.
C6_ExtractMarkerOnlyOnSuccess ==
    /\ \A p \in CachePaths : extracted[p] => html[p] = Archive
    /\ \A t \in Callers :
          /\ pc[t] = "run7z" => ~extracted[PathOf(t)]
          /\ pc[t] = "touch_extracted" => html[PathOf(t)] = Archive
          /\ (pc[t] = "done" /\ res[t].status \in {"ToolNotFound", "CalledProcessError"})
               => ~extracted[PathOf(t)] /\ KeyOf(t) \notin ready
          /\ (trace[t].prevFail = "extract"
                /\ pc[t] \in {"touch_extracted", "convert", "convert_loop"})
               => "extract" \in trace[t].ran

C6_Witness ==
    \E t \in Callers :
        /\ pc[t] = "done"
        /\ res[t].status = "CalledProcessError"
        /\ html[PathOf(t)] = {<<1, "htm">>}
        /\ ~extracted[PathOf(t)]

\* C7: a document whose conversion raises does not stop the conversion
\* stage: once .converted exists every document of the archive that can be
\* converted has its output file (unless it was deleted from outside
\* afterwards), whatever documents were skipped, and a call that ran the
\* conversion loop did not fail in the conversion stage.
C7_ConversionSkipsBrokenDocuments ==
    /\ \A p \in CachePaths :
          converted[p] =>
              \A f \in Archive \ broken : MdOf(f) \in markdown[p] \cup removed[p]
    /\ \A t \in Callers :
          "convert" \in trace[t].ran
              => /\ trace[t].enum = Archive
                 /\ lastFail[PathOf(t)] # "convert"
                 /\ pc[t] # "convert_loop" => converted[PathOf(t)]

C7_Witness ==
    \E p \in CachePaths :
        /\ converted[p]
        /\ broken = {<<1, "htm">>}
        /\ markdown[p] = Docs \ {1}

\* The call of t is a call of _ensure_ready that has returned normally.
EnsureReturned(t) ==
    pc[t] = "done" /\ call[t].op = "_ensure_ready" /\ res[t].status = "none"

\* C11 as claimed: a marker that is absent when _ensure_ready is called
\* is rebuilt by that call, also for a pair made ready earlier in the
\* process: when the call has returned all three markers are there.
C11_AbsentMarkerRebuilt ==
    \A t \in Callers :
        (EnsureReturned(t) /\ OnCache(t)) => AllMarked(PathOf(t))

\* A step that enters a stage whose marker is absent starts the work of
\* the stage, or raises; the step that finds the key in the readiness
\* set ends _ensure_ready and leaves the cache as it is.
C11_AbsentMarkerRuns ==
    \A t \in Callers :
        /\ (pc[t] = "ensure" /\ pc'[t] # pc[t] /\ KeyOf(t) \in ready)
             => pc'[t] = "done" /\ UNCHANGED fsVars /\ trace'[t].early
        /\ (pc[t] = "extract" /\ pc'[t] # pc[t] /\ ~extracted[PathOf(t)])
             => pc'[t] \in {"run7z", "done"}
        /\ (pc[t] = "convert" /\ pc'[t] # pc[t] /\ ~converted[PathOf(t)])
             => \/ pc'[t] = "convert_loop" /\ "convert" \in trace'[t].ran
                \/ pc'[t] = "done"
        /\ (pc[t] = "build_index" /\ pc'[t] # pc[t] /\ ~indexed[PathOf(t)])
             => \/ pc'[t] = "index_loop" /\ "index" \in trace'[t].ran
                \/ pc'[t] = "done"

\* C11, amended: a call of _ensure_ready that finds the pair outside the
\* readiness set runs every stage it reaches whose marker is absent, so
\* that when it has returned all three markers are there again; a call
\* that finds the pair in the readiness set returns at once and rebuilds
\* nothing, whatever markers were deleted.
C11_AbsentMarkerRebuiltUnlessReady ==
    /\ [](\A t \in Callers :
            (EnsureReturned(t) /\ OnCache(t) /\ ~trace[t].early)
                => AllMarked(PathOf(t)) /\ trace[t].checked = Stages)
    /\ [](\A t \in Callers :
            (pc[t] = "run7z" /\ tampered[PathOf(t)]) => ~extracted[PathOf(t)])
    /\ [][C11_AbsentMarkerRuns]_vars

\* A call after a restart has rebuilt the index behind a deleted .indexed
\* and skipped the two stages whose markers were still there.
C11_Witness ==
    \E t \in Callers :
        /\ EnsureReturned(t)
        /\ tampered[PathOf(t)]
        /\ trace[t].ran = {"index"}
        /\ AllMarked(PathOf(t))

\* The pairs a search of the given scope is to cover: the pair itself, the
\* configured sources of the application, or every configured pair.
ConfiguredPairs == { apps[i] : i \in 1..Len(apps) }

ExpectedTargets(scope) ==
    IF scope[1] # NoName /\ scope[2] # NoName THEN {scope}
    ELSE IF scope[1] # NoName THEN { pr \in ConfiguredPairs : pr[1] = scope[1] }
    ELSE ConfiguredPairs

SearchReturned(t) ==
    pc[t] = "done" /\ call[t].op = "search" /\ res[t].status = "ok"

HitPairs(t) == { <<res[t].out[i].app, res[t].out[i].source>> :
                    i \in 1..Len(res[t].out) }

\* C12 as claimed: a search that has returned has ensured the readiness of
\* every pair of its scope.
C12_EveryTargetEnsured ==
    \A t \in Callers :
        SearchReturned(t) =>
            \A pr \in ExpectedTargets(call[t].scope) :
                _cache_key(pr[1], pr[2]) \in ready

\* While a search runs, the readiness set gains no key but that of the
\* pair being ensured, and no cache directory but that pair's changes.
C12_OnlyCurrentTargetTouched ==
    \A t \in Callers :
        (call[t].op = "search" /\ pc[t] # "done") =>
            /\ ready' \subseteq ready \cup {KeyOf(t)}
            /\ \A p \in CachePaths :
                  p # PathOf(t) =>
                      /\ extracted'[p] = extracted[p] /\ html'[p] = html[p]
                      /\ converted'[p] = converted[p] /\ markdown'[p] = markdown[p]
                      /\ indexed'[p] = indexed[p] /\ index'[p] = index[p]

\* C12, amended: the hits of search(q, app=A, source=S) are tagged (A, S),
\* those of search(q, app=A) are tagged A and one of A's configured
\* sources, those of search(q) a configured pair; readiness is ensured for
\* pairs of the scope only, and for every pair of the scope when the
\* search returns after a query that parses; a query that does not parse
\* ends the search at the first target with no hit.
C12_SearchScoped ==
    /\ [](\A t \in Callers :
            (call[t].op = "search" /\ pc[t] \notin {"idle", "done"})
                => <<call[t].app, call[t].source>> \in ExpectedTargets(call[t].scope))
    /\ [](\A t \in Callers :
            SearchReturned(t) =>
                /\ HitPairs(t) \subseteq ExpectedTargets(call[t].scope)
                /\ Parses(call[t].query) =>
                      \A pr \in ExpectedTargets(call[t].scope) :
                          /\ _cache_key(pr[1], pr[2]) \in ready
                          /\ AllMarked(_cache_path(pr[1], pr[2]))
                /\ ~Parses(call[t].query) => res[t].out = <<>>)
    /\ [][C12_OnlyCurrentTargetTouched]_vars

\* search(q, app="a") on an extractor that also has the application "a/b"
\* has returned hits and has not made the other application's pair ready.
C12_Witness ==
    \E t \in Callers :
        /\ SearchReturned(t)
        /\ call[t].scope = <<AppA, NoName>>
        /\ apps = << <<AppA, SrcM>>, <<AppAB, SrcC>> >>
        /\ res[t].out # <<>>
        /\ _cache_key(AppAB, SrcC) \notin ready

\* Every hit that the indexes in the cache directories of the scope's
\* pairs hold for the query.
AllMatches(t) ==
    { Hit(x[1][1], x[1][2], call[t].query, x[2]) :
        x \in { y \in ExpectedTargets(call[t].scope) \X Docs :
                  /\ _cache_path(y[1][1], y[1][2]) \in CachePaths
                  /\ y[2] \in index[_cache_path(y[1][1], y[1][2])].docs
                  /\ Matches(call[t].query, y[2]) } }

\* C13: what a search returns after a query that parses is cut to limit,
\* ordered by score, highest first, and made of the highest-scoring hits
\* of all the indexes of its scope: it has limit hits, or all of them when
\* there are fewer, and no hit left out scores higher than a hit returned.
C13_MergedTopLimit ==
    \A t \in Callers :
        (SearchReturned(t) /\ Parses(call[t].query)) =>
            LET out == res[t].out
                n == Len(out)
                outset == { out[i] : i \in 1..n }
                all == AllMatches(t)
            IN  /\ n <= call[t].limit
                /\ \A i \in 1..(n - 1) : out[i].score >= out[i + 1].score
                /\ Cardinality(outset) = n
                /\ outset \subseteq all
                /\ n = IF Cardinality(all) < call[t].limit
                       THEN Cardinality(all) ELSE call[t].limit
                /\ \A g \in outset, h \in all \ outset : g.score >= h.score

\* A search over both sources of an application whose two best hits are
\* both in the second source.
C13_Witness ==
    \E t \in Callers :
        /\ SearchReturned(t)
        /\ call[t].scope = <<AppA, NoName>>
        /\ call[t].query = "all"
        /\ call[t].limit = 2
        /\ Cardinality(AllMatches(t)) = 2 * NumDocs
        /\ Len(res[t].out) = 2
        /\ \A i \in 1..2 : res[t].out[i].source = SrcN

\* The names a call was given: the scope of a search, the pair of the
\* other operations.
GivenNames(t) ==
    IF call[t].op = "search" THEN call[t].scope
    ELSE <<call[t].app, call[t].source>>

\* What validation says of the names given: the application first, then
\* the source when one is given.
Validation(names) ==
    IF names[1] \notin { pr[1] : pr \in ConfiguredPairs } THEN "UnknownApp"
    ELSE IF names[2] # NoName /\ names \notin ConfiguredPairs THEN "UnknownSource"
    ELSE "ok"

\* C14: an operation given an application that is not configured ends
\* with the unknown-application error, and given a configured application
\* and a source that is not one of its sources ends with the
\* unknown-source error listing the application's sources; in both cases
\* it has run no stage and has not added the pair to the readiness set.
C14_UnknownNamesRejected ==
    \A t \in Callers :
        (/\ call[t].op \in {"search", "read_page", "list_pages", "list_sources"}
         /\ pc[t] \notin {"idle", "ensure"}
         /\ GivenNames(t)[1] # NoName
         /\ Validation(GivenNames(t)) # "ok")
            => /\ pc[t] = "done"
               /\ res[t].status = Validation(GivenNames(t))
               /\ res[t].out = <<>>
               /\ trace[t].ran = {} /\ ~trace[t].added
               /\ Validation(GivenNames(t)) = "UnknownSource"
                    => res[t].avail =
                         { pr[2] : pr \in { x \in ConfiguredPairs :
                                               x[1] = GivenNames(t)[1] } }

\* A search given a source and no application.
SourceOnly(c) == c.op = "search" /\ c.scope[1] = NoName /\ c.scope[2] # NoName

\* The step that starts a search with a source and no application ends it,
\* and changes neither the readiness set nor the cache.
C15_ScopeCheckedFirst ==
    \A t \in Callers :
        (pc[t] = "idle" /\ SourceOnly(call'[t]))
            => pc'[t] = "done" /\ UNCHANGED <<ready, fsVars, histVars>>

\* C15: search with a source and no application is over at once with
\* InvalidScope: no target pair is resolved, _ensure_ready is not entered
\* for any pair, and the readiness set and the cache are as they were.
C15_InvalidScope ==
    /\ [](\A t \in Callers :
            SourceOnly(call[t])
                => /\ pc[t] = "done"
                   /\ res[t].status = "InvalidScope"
                   /\ res[t].out = <<>>
                   /\ call[t].rest = <<>> /\ call[t].app = NoName
                   /\ trace[t] = NoTrace)
    /\ [][C15_ScopeCheckedFirst]_vars

C15_Witness ==
    \E t \in Callers :
        /\ SourceOnly(call[t])
        /\ res[t].status = "InvalidScope"
        /\ Len(apps) = 2
        /\ Cardinality(ready) = 1

\* The window [offset, offset + limit) of the documents S in their order:
\* its i-th entry is the document with offset + i - 1 documents before it.
ExpectedWindow(S, offset, limit) ==
    LET left == Cardinality(S) - offset
        n == IF left < 0 THEN 0 ELSE IF left < limit THEN left ELSE limit
    IN  [ i \in 1..n |->
            CHOOSE d \in S : Cardinality({ e \in S : e < d }) = offset + i - 1 ]

\* The step that ends list_pages returns the window of the listing.
C16_ListStep ==
    \A t \in Callers :
        (pc[t] = "list" /\ pc'[t] = "done")
            => /\ res'[t].status = "ok"
               /\ res'[t].out = ExpectedWindow(markdown[PathOf(t)],
                                                call'[t].offset, call'[t].limit)

\* The windows of one listing: windows of one page at different offsets
\* inside the listing hold different pages, a window and the window that
\* starts where it ends are disjoint and make up the window of both, and
\* a window that starts at or after the end is empty.
C16_Windows ==
    \A p \in CachePaths :
        LET L == SortedSeq(markdown[p])
            Pages(w) == { w[i] : i \in 1..Len(w) }
        IN  /\ \A o1, o2 \in 0..(Len(L) - 1) :
                  /\ Len(Slice(L, o1, 1)) = 1
                  /\ o1 # o2 => Slice(L, o1, 1) # Slice(L, o2, 1)
            /\ \A o \in 0..(NumDocs + 1), l1, l2 \in 0..MaxLimit :
                  /\ Pages(Slice(L, o, l1)) \cap Pages(Slice(L, o + l1, l2)) = {}
                  /\ Slice(L, o, l1) \o Slice(L, o + l1, l2) = Slice(L, o, l1 + l2)
                  /\ o >= Len(L) => Slice(L, o, l1) = <<>>
            /\ Slice(L, 0, Len(L)) = L

\* C16: list_pages returns the window [offset, offset + limit) of the
\* converted documents of the source in their sorted order, and the
\* windows of a listing fit together as windows do.
C16_ListPagesWindow ==
    /\ []C16_Windows
    /\ [][C16_ListStep]_vars

\* The second page of a whole listing, asked for on its own.
C16_Witness ==
    \E t \in Callers :
        /\ pc[t] = "done"
        /\ call[t].op = "list_pages"
        /\ call[t].offset = 1 /\ call[t].limit = 1
        /\ markdown[PathOf(t)] = Docs
        /\ res[t].out = <<2>>

\* What search returned is made of rows of the docs table.
FromTable(out) ==
    \A i \in 1..Len(out) :
        \E k \in 1..Len(siDb.rows) :
            siDb.rows[k].path = out[i].path /\ siDb.rows[k].raw = out[i].raw

\* C17: build with .indexed present changes neither the index nor the
\* marker, whatever documents it is given, so that search goes on finding
\* the rows of the first build and only those; build without the marker
\* writes the marker also when it is given no document, and search on the
\* empty index returns nothing.
C17_BuildOnceMarked ==
    /\ [][(SiBuild /\ siMarker) => UNCHANGED <<siMarker, siDb>>]_vars
    /\ [][(SiBuild /\ ~siMarker) =>
             /\ siMarker' /\ siDb'.exists
             /\ Len(siDb'.rows) <= siOut'.given
             /\ siOut'.given = 0 => siDb'.rows = <<>>]_vars
    /\ [](siOut.op = "search" =>
             /\ FromTable(siOut.out)
             /\ siDb.rows = <<>> => siOut.out = <<>>
             /\ (siOut.query = "all" /\ siOut.limit >= Len(siDb.rows))
                  => Len(siOut.out) = Len(siDb.rows))

\* The latest build was given one document and the index holds two: they
\* are those of an earlier build.
C17_Witness ==
    /\ siOut.op = "build"
    /\ siOut.given = 1
    /\ siMarker
    /\ Len(siDb.rows) = 2

\* C18: search returns normally with no result when index.db does not
\* exist and when the query does not parse, and no search changes the
\* index or the marker.
C18_SearchNeverRaises ==
    /\ []((siOut.op = "search" /\ (~siDb.exists \/ ~Parses(siOut.query)))
            => siOut.status = "ok" /\ siOut.out = <<>>)
    /\ [][SiSearch => UNCHANGED <<siMarker, siDb>>]_vars

\* A query that does not parse, on an index that holds documents.
C18_Witness ==
    /\ siOut.op = "search"
    /\ siOut.query = "bad"
    /\ siDb.exists /\ siDb.rows # <<>>
    /\ siOut.status = "ok" /\ siOut.out = <<>>

\* C19: every score search returns is the engine's value negated, not
\* below zero, and rounded to hundredths (half up); of two results the one
\* with the lower engine value never has the lower score; the results are
\* ordered by score, highest first, and are at most limit.
C19_ExposedScores ==
    siOut.op = "search" =>
        LET out == siOut.out
        IN  /\ Len(out) <= siOut.limit
            /\ \A i \in 1..Len(out) :
                  LET x == IF out[i].raw < 0 THEN -out[i].raw ELSE 0
                  IN  /\ out[i].score >= 0
                      /\ 10 * out[i].score - 5 <= x
                      /\ x <= 10 * out[i].score + 4
            /\ \A i, j \in 1..Len(out) :
                  out[i].raw < out[j].raw => out[i].score >= out[j].score
            /\ \A i \in 1..(Len(out) - 1) : out[i].score >= out[i + 1].score

\* A result with a value that rounds up next to one that is clamped.
C19_Witness ==
    /\ siOut.op = "search"
    /\ \E i, j \in 1..Len(siOut.out) :
          /\ siOut.out[i].raw = -2345 /\ siOut.out[i].score = 235
          /\ siOut.out[j].raw = 120 /\ siOut.out[j].score = 0

\* Caller t is past the marker check of the stage and doing its work.
InWork(t, st) ==
    CASE st = "extract" -> pc[t] = "run7z"
      [] st = "convert" -> pc[t] = "convert_loop"
      [] OTHER -> pc[t] = "index_loop"

Marked(p, st) ==
    CASE st = "extract" -> extracted[p]
      [] st = "convert" -> converted[p]
      [] OTHER -> indexed[p]

\* C20: nothing but the marker check stands between a caller and a
\* stage's work.  Two callers are in the work of the same stage of the
\* same pair only when both passed the check before either wrote the
\* marker: the marker is absent, neither has the key in the readiness set,
\* and for conversion the work of the stage has then been started twice.
\* C20_Witness is such a state.
C20_RaceOnMarkerCheck ==
    \A t1, t2 \in Callers, st \in Stages :
        (t1 # t2 /\ InWork(t1, st) /\ InWork(t2, st) /\ PathOf(t1) = PathOf(t2))
            => /\ ~Marked(PathOf(t1), st)
               /\ st \in trace[t1].checked \cap trace[t2].checked
               /\ ~trace[t1].early /\ ~trace[t2].early
               /\ (st = "convert" /\ ~failed[PathOf(t1)])
                    => /\ work[PathOf(t1)][st] = 2
                       /\ st \in trace[t1].ran \cap trace[t2].ran

\* Both callers are converting the documents of the same pair, and the
\* first of them has already written a document.
C20_Witness ==
    /\ pc["t1"] = "convert_loop" /\ pc["t2"] = "convert_loop"
    /\ PathOf("t1") = PathOf("t2")
    /\ ~converted[PathOf("t1")]
    /\ markdown[PathOf("t1")] # {}
    /\ todo["t2"] = Archive
    /\ work[PathOf("t1")]["convert"] = 2

\* C21: while a caller has a converted document open for writing, the
\* marker .converted of its pair is present only when another caller wrote
\* it: the writer itself found the marker absent, the work of the stage was
\* started twice, and what it rewrites is a document the listing already
\* holds.  A caller whose indexing read a document in that condition trusted
\* the marker.  C21_Witness is a state in which the marker is present, one
\* caller is rewriting a document and the other has just indexed it.
C21_MarkerOverOpenFile ==
    /\ \A u \in Callers :
          (writing[u] # 0 /\ converted[PathOf(u)])
              => /\ pc[u] = "convert_loop"
                 /\ "convert" \in trace[u].ran
                 /\ writing[u] \in markdown[PathOf(u)]
                 /\ ~failed[PathOf(u)] => work[PathOf(u)]["convert"] = 2
    /\ \A t \in Callers :
          trace[t].torn # {}
              => /\ converted[PathOf(t)]
                 /\ "index" \in trace[t].ran
                 /\ trace[t].torn \subseteq markdown[PathOf(t)]
                 /\ ~failed[PathOf(t)] => work[PathOf(t)]["convert"] = 2

C21_Witness ==
    \E t, u \in Callers :
        /\ t # u
        /\ pc[u] = "convert_loop" /\ writing[u] # 0
        /\ pc[t] = "index_loop"
        /\ PathOf(t) = PathOf(u)
        /\ converted[PathOf(u)]
        /\ writing[u] \in trace[t].torn
        /\ writing[u] \in buf[t]

\* The state of the configured pair in the state machine of _ensure_ready,
\* read off the readiness set, the position of the call that names the
\* pair, and the outcome of the latest such call.
PairState ==
    LET t == "t1"
        p == _cache_path(TheApp, TheSource)
    IN  IF _cache_key(TheApp, TheSource) \in ready THEN "Ready"
        ELSE IF pc[t] \notin {"idle", "done"} /\ CallsThePair(t)
        THEN CASE pc[t] = "ensure" -> "Validating"
               [] pc[t] \in {"extract", "run7z", "touch_extracted"} -> "Extracting"
               [] pc[t] \in {"convert", "convert_loop"} -> "Converting"
               [] OTHER -> "Indexing"
        ELSE IF lastFail[p] # "none" THEN "Failed"
        ELSE "Unknown"

Moves ==
    { <<"Unknown", "Validating">>, <<"Failed", "Validating">>,
      <<"Validating", "Extracting">>,
      <<"Extracting", "Converting">>, <<"Extracting", "Failed">>,
      <<"Converting", "Indexing">>, <<"Converting", "Failed">>,
      <<"Indexing", "Ready">>, <<"Indexing", "Failed">> }

\* C22: the state of the pair changes only by a move of the state machine;
\* a pair that is Ready stays Ready; and when _ensure_ready is called for
\* the pair again and again and no stage fails for ever, the pair becomes
\* Ready and remains so.
C22_PairStateMachine ==
    /\ [][PairState' = PairState \/ <<PairState, PairState'>> \in Moves]_vars
    /\ [][PairState = "Ready" => PairState' = "Ready"]_vars
    /\ <>[](PairState = "Ready")

\* A call for the pair that was Failed has reached indexing.
C22_Witness ==
    /\ PairState = "Indexing"
    /\ trace["t1"].prevFail # "none"
    /\ failed[_cache_path(TheApp, TheSource)]

\* C23: with callers that run concurrently, fail, retry and meet a new
\* process, no step removes a completion marker, and the markers of a
\* cache directory are downward closed: .indexed only with .converted,
\* .converted only with .extracted.
C23_MarkersDownwardClosed ==
    /\ [](\A p \in CachePaths :
            /\ indexed[p] => converted[p]
            /\ converted[p] => extracted[p])
    /\ [][\A p \in CachePaths :
            /\ extracted[p] => extracted'[p]
            /\ converted[p] => converted'[p]
            /\ indexed[p] => indexed'[p]]_vars

\* After a failed call and a new process, one caller has passed the
\* conversion marker while the other is still on its way to it.
C23_Witness ==
    \E p \in CachePaths :
        /\ failed[p]
        /\ ready = {}
        /\ extracted[p] /\ converted[p] /\ ~indexed[p]
        /\ pc["t1"] = "index_loop"
        /\ pc["t2"] = "convert_loop"

\* C24: a pair is in the readiness set only by having been made ready
\* itself.  _ensure_ready returns early only for a pair that passed
\* validation, hence a configured one, and the hits of a search are tagged
\* with configured pairs only: no index is read under another pair's name.
C24_ReadyOnlyForItself ==
    \A t \in Callers :
        /\ (pc[t] \notin {"idle", "ensure"} /\ trace[t].early)
              => <<call[t].app, call[t].source>> \in ConfiguredPairs
        /\ SearchReturned(t) => HitPairs(t) \subseteq ConfiguredPairs

\* The pairs a running search has still to take up.
Waiting(c) == { c.rest[i] : i \in 1..Len(c.rest) }

\* The pairs a running search has finished with.
Passed(c) ==
    ExpectedTargets(c.scope) \ (Waiting(c) \cup {<<c.app, c.source>>})

\* A stage raises in this step of caller t's search.
RaisesInSearch(t) ==
    /\ call[t].op = "search"
    /\ pc[t] \notin {"idle", "ensure", "done"}
    /\ lastFail'[PathOf(t)] # lastFail[PathOf(t)]

\* C25: a stage that raises for one target of a search ends the search
\* with the error and no hit.  The pair is not in the readiness set, the
\* targets taken before it are there with their markers, and the targets
\* still waiting stay waiting: while they wait no step changes their
\* cache directory or their membership of the readiness set.
C25_FailureEndsSearch ==
    /\ [][\A t \in Callers :
            RaisesInSearch(t) =>
                /\ pc'[t] = "done"
                /\ res'[t].status \in StageErrors
                /\ res'[t].out = <<>> /\ hits'[t] = <<>>
                /\ call'[t] = call[t]
                /\ ready' = ready]_vars
    /\ [](\A t \in Callers :
            (call[t].op = "search" /\ pc[t] = "done"
               /\ res[t].status \in StageErrors)
                => /\ res[t].out = <<>>
                   /\ KeyOf(t) \notin ready
                   /\ \A pr \in Passed(call[t]) :
                         /\ _cache_key(pr[1], pr[2]) \in ready
                         /\ AllMarked(_cache_path(pr[1], pr[2])))
    /\ [][\A t \in Callers :
            call'[t].op = "search" =>
                \A pr \in Waiting(call'[t]) :
                    LET p == _cache_path(pr[1], pr[2])
                        k == _cache_key(pr[1], pr[2])
                    IN  /\ extracted'[p] = extracted[p] /\ html'[p] = html[p]
                        /\ converted'[p] = converted[p]
                        /\ markdown'[p] = markdown[p]
                        /\ indexed'[p] = indexed[p] /\ index'[p] = index[p]
                        /\ work'[p] = work[p]
                        /\ (k \in ready') = (k \in ready)]_vars

\* A search of two targets has ended with the error of the second, after
\* it had hits from the first.
C25_Witness ==
    \E t \in Callers :
        /\ call[t].op = "search" /\ pc[t] = "done"
        /\ res[t].status \in StageErrors
        /\ Parses(call[t].query)
        /\ Passed(call[t]) # {}
        /\ \E pr \in Passed(call[t]) :
              \E d \in index[_cache_path(pr[1], pr[2])].docs :
                  Matches(call[t].query, d)

\* The page paths of PagePaths that lead out of the converted-text
\* directory.
EscapingPaths == { <<DotDot, DotDot, <<"e">>>>, <<Root, <<"e">>>> }

\* C8 as claimed: read_page rejects an escaping path before it touches the
\* filesystem: no marker checked, no stage run in the call.
C8_RejectedBeforeAnyAccess ==
    \A t \in Callers :
        (pc[t] = "done" /\ call[t].op = "read_page"
          /\ res[t].status = "PathTraversal")
            => trace[t].checked = {} /\ trace[t].ran = {}

\* C8, amended: read_page checks the path after _ensure_ready has
\* returned.  Whenever readiness was ensured, the path is rejected with the
\* path-safety error exactly when it leads out of the converted-text
\* directory, nothing is read for a rejected path, and what is read
\* otherwise is a document of the pair's converted-text directory.
C8_TraversalRejectedAfterReadiness ==
    \A t \in Callers :
        (pc[t] = "done" /\ call[t].op = "read_page" /\ call[t].path # <<>>)
            => /\ trace[t].early \/ trace[t].added
               /\ res[t].status = "PathTraversal" <=> call[t].path \in EscapingPaths
               /\ res[t].status = "PathTraversal" => res[t].out = <<>>
               /\ res[t].status = "ok"
                    => res[t].out =
                          << PathOf(t) \o <<MarkdownDirName, MdFile(1)>> >>

C8_Witness ==
    \E t \in Callers :
        /\ pc[t] = "done"
        /\ call[t].op = "read_page"
        /\ res[t].status = "PathTraversal"
        /\ trace[t].ran = Stages
        /\ trace[t].added

\* C9: with concurrent callers and no marker deleted, every key of the
\* readiness set stands for a cache directory that holds all three
\* markers, and a call adds the key only after it has entered all three
\* stages.
C9_ReadyImpliesMarkers ==
    /\ \A k \in ready : PathOfKey(k) \in CachePaths /\ AllMarked(PathOfKey(k))
    /\ \A t \in Callers : trace[t].added => trace[t].checked = Stages

C9_Witness ==
    /\ ready # {}
    /\ \E t \in Callers : pc[t] \in {"convert_loop", "index_loop"}

\* C10: the readiness set is empty at construction, and no step of any
\* operation, finished or failed, removes a key from it; only a new
\* process starts from the empty set again.
C10_ReadyGrows ==
    /\ ready = {}
    /\ [][Restart \/ ready \subseteq ready']_vars

C10_Witness ==
    /\ ready # {}
    /\ \E t \in Callers :
          pc[t] = "done" /\ res[t].status \in {"PathTraversal", "UnknownSource"}

====
